---- MODULE Spec2Model ----
(***************************************************************************)
(* The in-memory project store of the AI Shorts Studio API.  Two route     *)
(* sets exist: src/main.py ("root") and src/backend/main.py ("backend").   *)
(* A process serves one of them; `variant` says which.  Strings the        *)
(* handlers only pass along are TLA+ strings; strings the handlers build   *)
(* or split are sequences of pieces (a provided text is a sequence of      *)
(* one-character strings).  An Optional value is <<>> (None) or <<v>>.     *)
(***************************************************************************)
EXTENDS Integers, Sequences, FiniteSets, TLC

\* variant   the route set the process serves: "root" or "backend"
\* PROJECTS, SCRIPTS, ASSETS, RENDERS   the four module-level dicts
\* pending   root create_project requests that drew their uuid and have not
\*           stored the project yet (sync handlers run in worker threads)
\* last      the request completed last and its response
\* created   number of create_project requests completed with 200
\* ncalls    number of requests completed that wrote a table
VARIABLES variant, PROJECTS, SCRIPTS, ASSETS, RENDERS, pending, last, created, ncalls

vars == <<variant, PROJECTS, SCRIPTS, ASSETS, RENDERS, pending, last, created, ncalls>>

tables == <<PROJECTS, SCRIPTS, ASSETS, RENDERS>>

(* ------------------------------ bounds --------------------------------- *)

\* projects created or being created
MaxProjects == 2

\* requests that write a table
MaxCalls == 3

\* assets stored, all projects together
MaxAssets == 3

\* lines of the longest provided text
MaxLines == 57

(* --------------------------- small helpers ----------------------------- *)

None == <<>>

Some(v) == <<v>>

Max(a, b) == IF a >= b THEN a ELSE b

Min(a, b) == IF a <= b THEN a ELSE b

\* dict.get(key): None when the key is absent
Get(d, k) == IF k \in DOMAIN d THEN Some(d[k]) ELSE None

\* d[key] = value
Put(d, k, v) == [x \in DOMAIN d \cup {k} |-> IF x = k THEN v ELSE d[x]]

\* ASSETS.get(project_id, [])
GetList(d, k) == IF k \in DOMAIN d THEN d[k] ELSE <<>>

\* ASSETS.setdefault(project_id, []).extend(items)
Extend(d, k, items) == Put(d, k, GetList(d, k) \o items)

(* --------------------------- string model ------------------------------ *)

NL == "\n"

CR == "\r"

FF == "\f"

SP == " "

\* characters str.strip() removes (those of the modelled alphabet)
Whitespace == {SP, NL, CR, FF, "\t"}

\* characters str.splitlines() breaks on (those of the modelled alphabet)
LineBoundaries == {NL, CR, FF}

RECURSIVE LStrip(_)
LStrip(s) == IF s # <<>> /\ Head(s) \in Whitespace THEN LStrip(Tail(s)) ELSE s

RECURSIVE RStrip(_)
RStrip(s) ==
    IF s # <<>> /\ s[Len(s)] \in Whitespace THEN RStrip(SubSeq(s, 1, Len(s) - 1)) ELSE s

\* str.strip()
Strip(s) == RStrip(LStrip(s))

\* str.replace(old, new) for one-character old and new
Replace(s, old, new) == [i \in 1..Len(s) |-> IF s[i] = old THEN new ELSE s[i]]

\* the positions of s, in increasing order
Positions(s) == [i \in 1..Len(s) |-> i]

\* the pieces of s between breaks: break k starts at starts[k] and ends at
\* ends[k]; the piece after the last break is kept when keepLast holds
Between(s, starts, ends, keepLast) ==
    LET n == Len(starts)
        from(k) == IF k = 1 THEN 1 ELSE ends[k - 1] + 1
    IN [k \in 1..(IF keepLast \/ from(n + 1) <= Len(s) THEN n + 1 ELSE n) |->
          IF k <= n THEN SubSeq(s, from(k), starts[k] - 1) ELSE SubSeq(s, from(k), Len(s))]

\* str.split(sep): every piece between separators, empty ones included
Split(s, sep) ==
    LET starts == SelectSeq(Positions(s), LAMBDA i : s[i] = sep)
    IN Between(s, starts, starts, TRUE)

\* str.splitlines(): breaks at a line boundary, "\r\n" counting as one, and
\* yields no empty last line
SplitLines(s) ==
    LET starts == SelectSeq(Positions(s),
                            LAMBDA i : /\ s[i] \in LineBoundaries
                                       /\ ~(s[i] = NL /\ i > 1 /\ s[i - 1] = CR))
        ends == [k \in 1..Len(starts) |->
                   IF s[starts[k]] = CR /\ starts[k] < Len(s) /\ s[starts[k] + 1] = NL
                   THEN starts[k] + 1 ELSE starts[k]]
    IN Between(s, starts, ends, FALSE)

\* [x.strip() for x in pieces if x.strip()]
StripNonEmpty(pieces) ==
    SelectSeq([i \in 1..Len(pieces) |-> Strip(pieces[i])], LAMBDA x : x # <<>>)

\* sep.join(items), items being sequences of pieces
RECURSIVE Join(_, _)
Join(sep, items) ==
    IF items = <<>> THEN <<>>
    ELSE IF Len(items) = 1 THEN Head(items)
    ELSE Head(items) \o <<sep>> \o Join(sep, Tail(items))

(* ------------------------------ inputs --------------------------------- *)

\* a text of n lines "a", each ended by a newline
LinesText(n) == [i \in 1..(2 * n) |-> IF i % 2 = 1 THEN "a" ELSE NL]

\* request texts of /script/provide
TextInputs ==
    { <<>>,
      <<SP, NL, SP>>,
      <<SP, "a", CR, NL, NL, "b", SP>>,
      <<"a", NL, "b", NL, "c">> }
    \cup { LinesText(n) : n \in (MaxLines - 1)..MaxLines }

\* identifiers uuid.uuid4() can return
Uuids == { "uuid_" \o ToString(k) : k \in 1..MaxProjects }

\* project ids a client can send: those created so far and those not created yet
PidInputs ==
    IF variant = "root" THEN Uuids
    ELSE { "proj_" \o ToString(k) : k \in 1..MaxProjects }

\* CreateProjectReq bodies (root) that Project(...) accepts
CreateProjectReqInputs ==
    { [title |-> "T", topic |-> "Wands", mode |-> "auto", fandom |-> "generic"] }

\* CreateProjectBody bodies (backend)
CreateProjectBodyInputs ==
    { [title |-> "T", topic |-> "Wands", mode |-> "auto", brand_name |-> None, fandom |-> f] :
        f \in {None, Some("harry_potter")} }

\* ScriptGenerateReq.topic (root, required)
TopicInputs == {"Dragons"}

\* GenerateScriptBody.topic (backend, Optional)
OptTopicInputs == {None, Some(""), Some("Dragons")}

\* AIImagesReq.fandom (root, default "generic")
FandomInputs == {"harry_potter", "game_of_thrones", "generic", "naruto"}

\* GenerateAIImagesBody.fandom (backend, Optional)
OptFandomInputs == {None, Some("harry_potter")}

\* GenerateAIImagesBody.prompts (backend, Optional list)
OptPromptsInputs ==
    { None, Some(<<>>), Some(<< <<"p1">> >>), Some(<< <<"p1">>, <<"p2">> >>),
      Some(<< <<"p1">>, <<"p2">>, <<"p3">>, <<"p4">> >>) }

\* TTSBody.voice (backend, default "female_neutral")
VoiceInputs == {"female_neutral"}

(* ---------------------- schemas (src/schemas.py) ----------------------- *)

Modes == {"auto", "step"}

Fandoms == {"harry_potter", "game_of_thrones", "generic"}

\* Project(title=, topic=, mode=, fandom=) validates its Literal fields
ProjectValid(req) == req.mode \in Modes /\ req.fandom \in Fandoms

Project(req) ==
    [ title |-> req.title, topic |-> req.topic, mode |-> req.mode, fandom |-> req.fandom,
      use_ai_images |-> TRUE, use_stock_media |-> FALSE, use_ai_voice |-> TRUE,
      brand_primary |-> "#FACC15", brand_secondary |-> "#18181B",
      fps |-> 30, max_seconds |-> 60 ]

ScriptSegment(start, end, text) == [start |-> start, end |-> end, text |-> text]

Script(project_id, text, segments) ==
    [project_id |-> project_id, text |-> text, segments |-> segments]

MediaAsset(project_id, kind, url, meta) ==
    [project_id |-> project_id, kind |-> kind, url |-> url, meta |-> meta]

(* ------------------ schemas (src/backend/schemas.py) ------------------- *)

BackendProject(body) ==
    [ title |-> body.title, topic |-> body.topic, mode |-> body.mode, status |-> "draft",
      use_ai_script |-> TRUE, use_ai_voice |-> TRUE, use_stock_media |-> TRUE,
      use_ai_images |-> TRUE, brand_name |-> body.brand_name,
      color_primary |-> Some("#FFD54A"), color_secondary |-> Some("#FFFFFF"),
      fps |-> 30, max_seconds |-> 60 ]

BackendMediaAsset(project_id, kind, url, meta) ==
    [project_id |-> project_id, kind |-> kind, url |-> url, attribution |-> None, meta |-> meta]

BackendScript(project_id, text, segments) ==
    [project_id |-> project_id, text |-> text, segments |-> segments]

(* --------------------------- state and Init ---------------------------- *)

EmptyTable == [k \in {} |-> None]

Response(op, pid, status, arg, out) ==
    [op |-> op, pid |-> pid, status |-> status, arg |-> arg, out |-> out]

Init ==
    /\ variant \in {"root", "backend"}
    /\ PROJECTS = EmptyTable
    /\ SCRIPTS = EmptyTable
    /\ ASSETS = EmptyTable
    /\ RENDERS = EmptyTable
    /\ pending = {}
    /\ last = Response("none", "", 0, None, None)
    /\ created = 0
    /\ ncalls = 0

RECURSIVE SumLen(_, _)
SumLen(d, keys) ==
    IF keys = {} THEN 0
    ELSE LET k == CHOOSE x \in keys : TRUE IN Len(d[k]) + SumLen(d, keys \ {k})

\* number of assets stored, all projects together
TotalAssets == SumLen(ASSETS, DOMAIN ASSETS)

\* raise HTTPException(status, detail): the handler ends, no table written
Raise(op, pid, status, detail) ==
    /\ last' = Response(op, pid, status, None, [detail |-> detail])
    /\ UNCHANGED <<variant, PROJECTS, SCRIPTS, ASSETS, RENDERS, pending, created, ncalls>>

\* SCRIPTS[project_id] = script, then the handler returns
StoreScript(op, pid, arg, script, out) ==
    /\ ncalls < MaxCalls
    /\ SCRIPTS' = Put(SCRIPTS, pid, script)
    /\ ncalls' = ncalls + 1
    /\ last' = Response(op, pid, 200, arg, out)
    /\ UNCHANGED <<variant, PROJECTS, ASSETS, RENDERS, pending, created>>

\* ASSETS.setdefault(project_id, []) extended by items, then the handler returns
StoreAssets(op, pid, arg, items, out) ==
    /\ ncalls < MaxCalls
    /\ TotalAssets + Len(items) <= MaxAssets
    /\ ASSETS' = Extend(ASSETS, pid, items)
    /\ ncalls' = ncalls + 1
    /\ last' = Response(op, pid, 200, arg, out)
    /\ UNCHANGED <<variant, PROJECTS, SCRIPTS, RENDERS, pending, created>>

\* zip(xs, ys): pairs by position, as many as the shorter list has
Zip(xs, ys) == [i \in 1..Min(Len(xs), Len(ys)) |-> <<xs[i], ys[i]>>]

\* ProjectView with RENDERS.get(project_id) given a default job instead of None
ProjectViewQueuedRender(project_id) ==
    [ project |-> PROJECTS[project_id],
      script |-> Get(SCRIPTS, project_id),
      assets |-> GetList(ASSETS, project_id),
      render |-> IF project_id \in DOMAIN RENDERS THEN Some(RENDERS[project_id])
                 ELSE Some([project_id |-> project_id, status |-> "queued",
                            output_url |-> None, error |-> None]) ]

\* the aggregate view both get_project handlers return
ProjectView(project_id) ==
    [ project |-> PROJECTS[project_id],
      script |-> Get(SCRIPTS, project_id),
      assets |-> GetList(ASSETS, project_id),
      render |-> Get(RENDERS, project_id) ]

(* ----------------------- root routes (src/main.py) --------------------- *)

\* the identifiers no stored or in-flight project has
Unused == Uuids \ (DOMAIN PROJECTS \cup { c.pid : c \in pending })

\* pid = str(uuid.uuid4()): a random identifier, taken to differ from every one in
\* use; identifiers are opaque, so the one drawn is named by the lowest unused number
Uuid4 == { u \in Unused : \A k \in 1..MaxProjects :
                            u = "uuid_" \o ToString(k) =>
                              \A j \in 1..(k - 1) : "uuid_" \o ToString(j) \notin Unused }

\* create_project up to the uuid4 call; the handler runs in a worker thread,
\* so other requests can run before it stores the project
create_project_uuid(req) ==
    /\ variant = "root"
    /\ Cardinality(DOMAIN PROJECTS) + Cardinality(pending) < MaxProjects
    /\ ncalls + Cardinality(pending) < MaxCalls
    /\ \E pid \in Uuid4 : pending' = pending \cup {[pid |-> pid, req |-> req]}
    /\ UNCHANGED <<variant, PROJECTS, SCRIPTS, ASSETS, RENDERS, last, created, ncalls>>

\* create_project from Project(...) on: a ValidationError ends it with 500
create_project(c) ==
    /\ variant = "root"
    /\ c \in pending
    /\ pending' = pending \ {c}
    /\ IF ~ProjectValid(c.req)
       THEN /\ last' = Response("create_project", c.pid, 500, None,
                                [detail |-> "Internal Server Error"])
            /\ UNCHANGED <<variant, PROJECTS, SCRIPTS, ASSETS, RENDERS, created, ncalls>>
       ELSE /\ PROJECTS' = Put(PROJECTS, c.pid, Project(c.req))
            /\ created' = created + 1
            /\ ncalls' = ncalls + 1
            /\ last' = Response("create_project", c.pid, 200, Some(c.req),
                                [project_id |-> c.pid])
            /\ UNCHANGED <<variant, SCRIPTS, ASSETS, RENDERS>>

get_project(project_id) ==
    /\ variant = "root"
    /\ IF project_id \notin DOMAIN PROJECTS
       THEN Raise("get_project", project_id, 404, "Project not found")
       ELSE /\ last' = Response("get_project", project_id, 200, None, ProjectView(project_id))
            /\ UNCHANGED <<variant, PROJECTS, SCRIPTS, ASSETS, RENDERS, pending, created, ncalls>>

bullets ==
    << "Hook: a jaw-dropping reveal in 5 seconds",
       "Point 1: surprising lore detail",
       "Point 2: fan theory twist",
       "Point 3: what most fans miss",
       "CTA: follow for more in-universe secrets" >>

\* f"Topic: {req.topic}\n" + "\n".join(f"- {b}" for b in bullets)
GeneratedText(topic) ==
    <<"Topic: ", topic, NL>> \o Join(NL, [i \in 1..Len(bullets) |-> <<"- ", bullets[i]>>])

GeneratedSegments ==
    << ScriptSegment(0, 5, "Hook"),
       ScriptSegment(5, 20, "Point 1"),
       ScriptSegment(20, 35, "Point 2"),
       ScriptSegment(35, 50, "Point 3"),
       ScriptSegment(50, 58, "CTA") >>

\* generate_script adding its segments and text to the stored script's
generate_script_merge(project_id, topic) ==
    /\ variant = "root"
    /\ IF project_id \notin DOMAIN PROJECTS
       THEN Raise("generate_script", project_id, 404, "Project not found")
       ELSE LET old == IF project_id \in DOMAIN SCRIPTS THEN SCRIPTS[project_id]
                       ELSE Script(project_id, <<>>, <<>>)
            IN StoreScript("generate_script", project_id, Some([topic |-> topic]),
                           Script(project_id, old.text \o GeneratedText(topic),
                                  old.segments \o GeneratedSegments),
                           [ok |-> TRUE])

generate_script(project_id, topic) ==
    /\ variant = "root"
    /\ IF project_id \notin DOMAIN PROJECTS
       THEN Raise("generate_script", project_id, 404, "Project not found")
       ELSE StoreScript("generate_script", project_id, Some([topic |-> topic]),
                        Script(project_id, GeneratedText(topic), GeneratedSegments),
                        [ok |-> TRUE])

dur == 55

\* lines = [l.strip() for l in req.text.splitlines() if l.strip()]
Lines(text) == StripNonEmpty(SplitLines(text))

\* per = max(1, dur // max(1, len(lines)))
Per(lines) == Max(1, dur \div Max(1, Len(lines)))

\* the loop over lines: t starts at 0 and advances by per
TimedSegments(lines) ==
    LET per == Per(lines)
    IN [i \in 1..Len(lines) |->
          ScriptSegment((i - 1) * per, Min(dur, (i - 1) * per + per), lines[i])]

\* provide_script without its existence check
provide_script_unchecked(project_id, text) ==
    /\ variant = "root"
    /\ StoreScript("provide_script", project_id, Some([text |-> text]),
                   Script(project_id, text, TimedSegments(Lines(text))),
                   [ok |-> TRUE])

provide_script(project_id, text) ==
    /\ variant = "root"
    /\ IF project_id \notin DOMAIN PROJECTS
       THEN Raise("provide_script", project_id, 404, "Project not found")
       ELSE StoreScript("provide_script", project_id, Some([text |-> text]),
                        Script(project_id, text, TimedSegments(Lines(text))),
                        [ok |-> TRUE])

HP_GIFS ==
    <<"https://media.tenor.com/1.gif", "https://media.tenor.com/2.gif",
      "https://media.tenor.com/3.gif">>

GOT_GIFS ==
    <<"https://media.tenor.com/a.gif", "https://media.tenor.com/b.gif",
      "https://media.tenor.com/c.gif">>

GENERIC_GIFS ==
    <<"https://media.tenor.com/x.gif", "https://media.tenor.com/y.gif",
      "https://media.tenor.com/z.gif">>

\* the pool the if/elif/else of ai_images selects
Pool(fandom) ==
    IF fandom = "harry_potter" THEN HP_GIFS
    ELSE IF fandom = "game_of_thrones" THEN GOT_GIFS
    ELSE GENERIC_GIFS

\* the prompts the if/elif/else of ai_images selects
Prompts(fandom) ==
    IF fandom = "harry_potter"
    THEN <<"wand sparks", "hogwarts castle night", "patronus mist">>
    ELSE IF fandom = "game_of_thrones"
    THEN <<"dragon flight", "winterfell snow drift", "sword sparks">>
    ELSE <<"magic particles", "fantasy landscape", "mystic smoke">>

\* every result random.sample(pool, k) can give: k distinct positions, any order
Sample(pool, k) ==
    { [i \in 1..k |-> pool[f[i]]] :
        f \in { g \in [1..k -> 1..Len(pool)] : \A i, j \in 1..k : i # j => g[i] # g[j] } }

ImageAssets(project_id, fandom, picked) ==
    LET pairs == Zip(picked, Prompts(fandom))
    IN [i \in 1..Len(pairs) |->
          MediaAsset(project_id, "image", pairs[i][1],
                     [prompt |-> pairs[i][2], fandom |-> fandom])]

ai_images(project_id, fandom) ==
    /\ variant = "root"
    /\ IF project_id \notin DOMAIN PROJECTS
       THEN Raise("ai_images", project_id, 404, "Project not found")
       ELSE \E picked \in Sample(Pool(fandom), Min(3, Len(Pool(fandom)))) :
              LET assets == ImageAssets(project_id, fandom, picked)
              IN StoreAssets("ai_images", project_id,
                             Some([fandom |-> fandom, prompts |-> None]),
                             assets, [count |-> Len(assets)])

tts_url ==
    "https://cdn.pixabay.com/download/audio/2022/02/23/audio_6b3c.mp3?filename=neutral-female-voiceover-sample.mp3"

VoiceAsset(project_id) ==
    MediaAsset(project_id, "voice", tts_url, [voice |-> "female_neutral", lang |-> "en-US"])

voice(project_id) ==
    /\ variant = "root"
    /\ IF project_id \notin DOMAIN PROJECTS
       THEN Raise("voice", project_id, 404, "Project not found")
       ELSE StoreAssets("voice", project_id, None, <<VoiceAsset(project_id)>>, [ok |-> TRUE])

health ==
    /\ last' = Response("health", "", 200, None, [ok |-> TRUE])
    /\ UNCHANGED <<variant, PROJECTS, SCRIPTS, ASSETS, RENDERS, pending, created, ncalls>>

(* ------------------ backend routes (src/backend/main.py) --------------- *)

\* `x or default` on an Optional string or list: None and the empty value are falsy
OrElse(opt, empty, default) == IF opt = None \/ opt = Some(empty) THEN default ELSE opt[1]

\* the identifier numbered by the wrong table: f"proj_{len(SCRIPTS)+1}"
NewProjectIdByScripts == "proj_" \o ToString(Cardinality(DOMAIN SCRIPTS) + 1)

\* pid = f"proj_{len(PROJECTS)+1}"
NewProjectId == "proj_" \o ToString(Cardinality(DOMAIN PROJECTS) + 1)

\* async handlers have no await: each runs to its end on the event loop
backend_create_project(body) ==
    /\ variant = "backend"
    /\ Cardinality(DOMAIN PROJECTS) < MaxProjects
    /\ ncalls < MaxCalls
    /\ LET pid == NewProjectId
           project == BackendProject(body)
       IN /\ PROJECTS' = Put(PROJECTS, pid, project)
          /\ last' = Response("create_project", pid, 200, Some(body),
                              [project_id |-> pid, project |-> project])
    /\ created' = created + 1
    /\ ncalls' = ncalls + 1
    /\ UNCHANGED <<variant, SCRIPTS, ASSETS, RENDERS, pending>>

\* [hook] + bullets + [cta]
BackendSegments(topic) ==
    << <<"What if I told you ", topic, " hides a secret you missed?">>,
       <<"Hidden detail #1 about ", topic>>,
       <<"Hidden detail #2 that changes everything">>,
       <<"A fan theory that actually makes sense">>,
       <<"Follow for more bite-sized lore!">> >>

BackendGeneratedScript(project_id, topic) ==
    LET segments == BackendSegments(topic)
    IN BackendScript(project_id, Join(NL, segments), segments)

backend_generate_script(project_id, opt_topic) ==
    /\ variant = "backend"
    /\ IF project_id \notin DOMAIN PROJECTS
       THEN Raise("generate_script", project_id, 404, "Project not found")
       ELSE LET topic == OrElse(opt_topic, "", PROJECTS[project_id].topic)
                script == BackendGeneratedScript(project_id, topic)
            IN StoreScript("generate_script", project_id, Some([topic |-> opt_topic]),
                           script, [script |-> script])

\* segs = [s.strip() for s in text.replace("\r","\n").split("\n") if s.strip()],
\* and [text] when that is empty
BackendSegs(text) ==
    LET segs == StripNonEmpty(Split(Replace(text, CR, NL), NL))
    IN IF segs = <<>> THEN <<text>> ELSE segs

backend_provide_script(project_id, text) ==
    /\ variant = "backend"
    /\ IF project_id \notin DOMAIN PROJECTS
       THEN Raise("provide_script", project_id, 404, "Project not found")
       ELSE LET script == BackendScript(project_id, text, BackendSegs(text))
            IN StoreScript("provide_script", project_id, Some([text |-> text]),
                           script, [script |-> script])

DefaultPrompts(fandom) ==
    << <<"cinematic portrait, ", fandom, " style, magical particles, ultra detail, 9:16">>,
       <<"dynamic action shot, ", fandom, " vibes, volumetric light, 9:16">>,
       <<"mystical landscape, ", fandom, " world, fog, depth, 9:16">> >>

sample_gifs ==
    <<"https://media.tenor.com/9v0Yw6Z0v2cAAAAC/magic-loop.gif",
      "https://media.tenor.com/tk2b8h7VJ24AAAAC/fantasy-landscape.gif",
      "https://media.tenor.com/7xgq6sVJ0bUAAAAC/smoke-magic.gif">>

BackendImageAssets(project_id, prompts) ==
    LET pairs == Zip(sample_gifs, prompts)
    IN [i \in 1..Len(pairs) |->
          BackendMediaAsset(project_id, "image", pairs[i][1], Some([prompt |-> pairs[i][2]]))]

generate_ai_images(project_id, opt_fandom, opt_prompts) ==
    /\ variant = "backend"
    /\ IF project_id \notin DOMAIN PROJECTS
       THEN Raise("ai_images", project_id, 404, "Project not found")
       ELSE LET fandom == OrElse(opt_fandom, "", "generic")
                prompts == OrElse(opt_prompts, <<>>, DefaultPrompts(fandom))
                assets == BackendImageAssets(project_id, prompts)
            IN StoreAssets("ai_images", project_id,
                           Some([fandom |-> fandom, prompts |-> opt_prompts]),
                           assets, [assets |-> assets])

backend_tts_url ==
    "https://files.freemusicarchive.org/storage-freemusicarchive-org/music/no_curator/Scott_Holmes_Music/Happy_Music/Scott_Holmes_Music_-_05_-_Upbeat_Party.mp3"

\* generate_voiceover without its "Script missing" check
generate_voiceover_unchecked(project_id, voice_name) ==
    /\ variant = "backend"
    /\ IF project_id \notin DOMAIN PROJECTS
       THEN Raise("voice", project_id, 404, "Project not found")
       ELSE LET asset == BackendMediaAsset(project_id, "voice", backend_tts_url, None)
            IN StoreAssets("voice", project_id, None, <<asset>>, [asset |-> asset])

generate_voiceover(project_id, voice_name) ==
    /\ variant = "backend"
    /\ IF project_id \notin DOMAIN PROJECTS
       THEN Raise("voice", project_id, 404, "Project not found")
       ELSE IF project_id \notin DOMAIN SCRIPTS
       THEN Raise("voice", project_id, 400, "Script missing")
       ELSE LET asset == BackendMediaAsset(project_id, "voice", backend_tts_url, None)
            IN StoreAssets("voice", project_id, None, <<asset>>, [asset |-> asset])

backend_get_project(project_id) ==
    /\ variant = "backend"
    /\ IF project_id \notin DOMAIN PROJECTS
       THEN Raise("get_project", project_id, 404, "Project not found")
       ELSE /\ last' = Response("get_project", project_id, 200, None, ProjectView(project_id))
            /\ UNCHANGED <<variant, PROJECTS, SCRIPTS, ASSETS, RENDERS, pending, created, ncalls>>

(* --------------------------- specification ----------------------------- *)

Next ==
    \/ \E req \in CreateProjectReqInputs : create_project_uuid(req)
    \/ \E c \in pending : create_project(c)
    \/ \E project_id \in PidInputs : get_project(project_id)
    \/ \E project_id \in PidInputs, topic \in TopicInputs : generate_script(project_id, topic)
    \/ \E project_id \in PidInputs, text \in TextInputs : provide_script(project_id, text)
    \/ \E project_id \in PidInputs, fandom \in FandomInputs : ai_images(project_id, fandom)
    \/ \E project_id \in PidInputs : voice(project_id)
    \/ health
    \/ \E body \in CreateProjectBodyInputs : backend_create_project(body)
    \/ \E project_id \in PidInputs, opt_topic \in OptTopicInputs :
         backend_generate_script(project_id, opt_topic)
    \/ \E project_id \in PidInputs, text \in TextInputs : backend_provide_script(project_id, text)
    \/ \E project_id \in PidInputs, opt_fandom \in OptFandomInputs, opt_prompts \in OptPromptsInputs :
         generate_ai_images(project_id, opt_fandom, opt_prompts)
    \/ \E project_id \in PidInputs, voice_name \in VoiceInputs :
         generate_voiceover(project_id, voice_name)
    \/ \E project_id \in PidInputs : backend_get_project(project_id)

Spec == Init /\ [][Next]_vars

(* ------------------------------ properties ----------------------------- *)

\* the step is a request to operation op completing: it wrote `last`, or it
\* repeated a successful request (which spends a call)
CallStep(op) ==
    /\ last'.op = op
    /\ (last.op # op \/ last # last' \/ ncalls' # ncalls)

ProjectOps == {"generate_script", "provide_script", "ai_images", "voice", "get_project"}

Range(seq) == { seq[i] : i \in 1..Len(seq) }

\* C1: in both route sets, GenerateScript, ProvideScript, GenerateImageAssets,
\* GenerateVoiceAsset and GetProject called with a project id that is not a key
\* of PROJECTS fail with 404 and leave all four tables as they were.
C1_UnknownProjectNotFound ==
    [][ \A op \in ProjectOps :
          (CallStep(op) /\ last'.pid \notin DOMAIN PROJECTS)
            => /\ last'.status = 404
               /\ PROJECTS' = PROJECTS
               /\ SCRIPTS' = SCRIPTS
               /\ ASSETS' = ASSETS
               /\ RENDERS' = RENDERS ]_vars

\* a script request for an unknown project was refused while another project
\* has a script and assets stored
C1_Witness ==
    /\ last.op = "provide_script"
    /\ last.status = 404
    /\ last.pid \notin DOMAIN PROJECTS
    /\ DOMAIN SCRIPTS # {}
    /\ DOMAIN ASSETS # {}

\* C2: every completed CreateProject returns an identifier that was no key of
\* PROJECTS before, stores the record with its defaults under it and changes no
\* other project; the number of stored projects equals the number of completed
\* calls; GetProject on the returned identifier right after succeeds with the
\* stored record.
C2_CreateIsFresh ==
    /\ [](Cardinality(DOMAIN PROJECTS) = created)
    /\ [][ created' # created
             => /\ created' = created + 1
                /\ last'.op = "create_project"
                /\ last'.status = 200
                /\ last'.out.project_id = last'.pid
                /\ last'.pid \notin DOMAIN PROJECTS
                /\ DOMAIN PROJECTS' = DOMAIN PROJECTS \cup {last'.pid}
                /\ \A q \in DOMAIN PROJECTS : PROJECTS'[q] = PROJECTS[q]
                /\ PROJECTS'[last'.pid].title = last'.arg[1].title
                /\ PROJECTS'[last'.pid].topic = last'.arg[1].topic
                /\ PROJECTS'[last'.pid].mode = last'.arg[1].mode
                /\ PROJECTS'[last'.pid].fps = 30
                /\ PROJECTS'[last'.pid].max_seconds = 60 ]_vars
    /\ [][ (last.op = "create_project" /\ last.status = 200
              /\ CallStep("get_project") /\ last'.pid = last.pid)
             => /\ last'.status = 200
                /\ last'.out.project = PROJECTS[last.pid]
                /\ last'.out.project.topic = last.arg[1].topic ]_vars

\* a second project was created and read back at once, the first still stored
C2_Witness ==
    /\ last.op = "get_project"
    /\ last.status = 200
    /\ last.pid \in {"uuid_2", "proj_2"}
    /\ created = 2
    /\ ncalls = 2
    /\ Cardinality(DOMAIN PROJECTS) = 2

\* C3 as claimed: in both route sets GenerateVoiceAsset on an existing project
\* with no Script fails with 400 and leaves every table unchanged.
C3_VoiceNeedsScript_AllRoutes ==
    [][ (CallStep("voice") /\ last'.pid \in DOMAIN PROJECTS /\ last'.pid \notin DOMAIN SCRIPTS)
          => /\ last'.status = 400
             /\ PROJECTS' = PROJECTS
             /\ SCRIPTS' = SCRIPTS
             /\ ASSETS' = ASSETS
             /\ RENDERS' = RENDERS ]_vars

\* C3 amended: in the backend route set GenerateVoiceAsset on an existing
\* project with no Script fails with 400 and leaves every table unchanged, so
\* there a voice asset is only ever stored for a project that has a Script.
C3_VoiceNeedsScript_Backend ==
    /\ [][ (variant = "backend" /\ CallStep("voice")
              /\ last'.pid \in DOMAIN PROJECTS /\ last'.pid \notin DOMAIN SCRIPTS)
             => /\ last'.status = 400
                /\ PROJECTS' = PROJECTS
                /\ SCRIPTS' = SCRIPTS
                /\ ASSETS' = ASSETS
                /\ RENDERS' = RENDERS ]_vars
    /\ [](variant = "backend"
            => \A p \in DOMAIN ASSETS :
                 (\E i \in 1..Len(ASSETS[p]) : ASSETS[p][i].kind = "voice")
                   => p \in DOMAIN SCRIPTS)

\* the backend refused a voice request for a project that has image assets
\* but no script
C3_Witness ==
    /\ variant = "backend"
    /\ last.op = "voice"
    /\ last.status = 400
    /\ last.pid \in DOMAIN PROJECTS
    /\ last.pid \notin DOMAIN SCRIPTS
    /\ last.pid \in DOMAIN ASSETS

\* the request text has no character other than whitespace
Blank(text) == \A i \in 1..Len(text) : text[i] \in Whitespace

\* C4: ProvideScript (root route set) on an existing project with a text of
\* n >= 1 non-empty lines stores exactly n segments in line order, the first
\* starting at 0, each later one starting where the previous one ended, every
\* one with end >= start, the last one ending at or before 55, the window being
\* max(1, floor(55 / n)).
C4_TimedSegments ==
    (variant = "root" /\ last.op = "provide_script" /\ last.status = 200)
      => LET lines == Lines(last.arg[1].text)
             n == Len(lines)
             segs == SCRIPTS[last.pid].segments
             w == Max(1, 55 \div Max(1, n))
         IN n >= 1
              => /\ Len(segs) = n
                 /\ \A i \in 1..n : segs[i].text = lines[i]
                 /\ segs[1].start = 0
                 /\ \A i \in 1..n : segs[i].start = (i - 1) * w
                 /\ \A i \in 2..n : segs[i].start = segs[i - 1].end
                 /\ \A i \in 1..n : segs[i].end >= segs[i].start
                 /\ segs[n].end <= 55

\* C5: ProvideScript on an existing project with an empty or whitespace-only
\* text stores a Script with exactly one segment, which holds the original text.
C5_BlankTextOneSegment ==
    (last.op = "provide_script" /\ last.status = 200 /\ Blank(last.arg[1].text))
      => LET segs == SCRIPTS[last.pid].segments
         IN /\ Len(segs) = 1
            /\ IF variant = "root" THEN segs[1].text = last.arg[1].text
               ELSE segs[1] = last.arg[1].text

\* the assets a successful asset request appended to its project's list
Appended == SubSeq(ASSETS'[last'.pid], Len(GetList(ASSETS, last'.pid)) + 1, Len(ASSETS'[last'.pid]))

\* C6: every successful GenerateImageAssets appends exactly 3 image assets, one
\* per selected URL, whatever the fandom and whatever the length of an explicit
\* prompt list.
C6_ThreeImagesPerCall ==
    [][ (CallStep("ai_images") /\ last'.status = 200)
          => /\ Len(ASSETS'[last'.pid]) = Len(GetList(ASSETS, last'.pid)) + 3
             /\ \A i \in 1..Len(Appended) : Appended[i].kind = "image"
             /\ Cardinality({ Appended[i].url : i \in 1..Len(Appended) }) = 3 ]_vars

\* the pool the claim assigns to a requested fandom; the generic pool is the
\* generic placeholder list of either route set
ClaimedPool(fandom) ==
    IF fandom = "harry_potter" THEN Range(HP_GIFS)
    ELSE IF fandom = "game_of_thrones" THEN Range(GOT_GIFS)
    ELSE Range(GENERIC_GIFS) \cup Range(sample_gifs)

\* C7: every URL a GenerateImageAssets call appends is a member of the pool of
\* the requested fandom: the Harry-Potter pool for harry_potter, the GoT pool
\* for game_of_thrones, the generic pool for any other or omitted fandom.
C7_UrlsFromFandomPool ==
    [][ (CallStep("ai_images") /\ last'.status = 200)
          => \A i \in 1..Len(Appended) : Appended[i].url \in ClaimedPool(last'.arg[1].fandom) ]_vars

\* the Script a successful request op(p, a) stores, as its route builds it from
\* the request alone
RequestedScript(op, p, a) ==
    IF variant = "root"
    THEN IF op = "generate_script"
         THEN Script(p, GeneratedText(a.topic), GeneratedSegments)
         ELSE Script(p, a.text, TimedSegments(Lines(a.text)))
    ELSE IF op = "generate_script"
         THEN BackendGeneratedScript(p, OrElse(a.topic, "", PROJECTS[p].topic))
         ELSE BackendScript(p, a.text, BackendSegs(a.text))

C9_AssetsAppendOnly ==
    /\ [][ \A op \in {"ai_images", "voice"} :
             (CallStep(op) /\ last'.status = 200)
               => /\ Len(Appended) = (IF op = "ai_images" THEN 3 ELSE 1)
                  /\ \A i \in 1..Len(Appended) :
                       Appended[i].kind = (IF op = "ai_images" THEN "image" ELSE "voice")
                  /\ ASSETS'[last'.pid] = GetList(ASSETS, last'.pid) \o Appended
                  /\ \A q \in DOMAIN ASSETS \ {last'.pid} : ASSETS'[q] = ASSETS[q] ]_vars
    /\ [][ \A q \in DOMAIN ASSETS :
             /\ q \in DOMAIN ASSETS'
             /\ Len(ASSETS'[q]) >= Len(ASSETS[q])
             /\ SubSeq(ASSETS'[q], 1, Len(ASSETS[q])) = ASSETS[q] ]_vars
    /\ []((last.op = "get_project" /\ last.status = 200)
            => last.out.assets = GetList(ASSETS, last.pid))

\* C10: the Renders table is empty in every reachable state and every
\* successful GetProject returns an absent render.
C10_NoRenderJob ==
    /\ DOMAIN RENDERS = {}
    /\ (last.op = "get_project" /\ last.status = 200) => last.out.render = None

\* a project with a script and assets was read back
C10_Witness ==
    /\ last.op = "get_project"
    /\ last.status = 200
    /\ last.out.script # None
    /\ last.out.assets # <<>>

====
